---- MODULE Spec2Model ----
(***************************************************************************)
(* Sources/COpenCrypto/shim.h as the C preprocessor executes it.           *)
(*                                                                         *)
(* The file is seventeen lines: an include guard (#ifndef / #define /      *)
(* #endif on C_OPEN_CRYPTO_H) around twelve #include directives of         *)
(* OpenSSL headers.  The model is the preprocessor's line-by-line walk     *)
(* over that file each time a translation unit includes it: the macro      *)
(* table, the conditional-group stack, the directives executed and the     *)
(* text the file itself contributes to the translation unit.               *)
(***************************************************************************)
EXTENDS Naturals, Sequences, FiniteSets

\* Number of  #include "shim.h"  directives the translation unit contains.
MaxInclusions == 8

----------------------------------------------------------------------------
\* The lines of the file.

Guard == "C_OPEN_CRYPTO_H"

Directive(k, n, h, t) == [kind |-> k, name |-> n, hdr |-> h, text |-> t]

NoHdr == [form |-> "none", dir |-> "", file |-> ""]

\* #include <openssl/f>
OpenSSL(f) == Directive("include", "", [form |-> "angle", dir |-> "openssl", file |-> f], "")

\* a line that is no directive: passed through to the translation unit
Text(t) == Directive("text", "", NoHdr, t)

ShimLines_decl ==
  << Directive("ifndef", Guard, NoHdr, ""),
     Directive("define", Guard, NoHdr, ""),
     Text("static int crypto_initialized;"),
     OpenSSL("conf.h"),
     OpenSSL("evp.h"),
     OpenSSL("err.h"),
     OpenSSL("bio.h"),
     OpenSSL("ssl.h"),
     OpenSSL("sha.h"),
     OpenSSL("md5.h"),
     OpenSSL("hmac.h"),
     OpenSSL("rand.h"),
     OpenSSL("rsa.h"),
     OpenSSL("pkcs12.h"),
     OpenSSL("x509v3.h"),
     Text(""),
     Directive("endif", "", NoHdr, "") >>

ShimLines ==
  << Directive("ifndef", Guard, NoHdr, ""),
     Directive("define", Guard, NoHdr, ""),
     Text(""),
     OpenSSL("conf.h"),
     OpenSSL("evp.h"),
     OpenSSL("err.h"),
     OpenSSL("bio.h"),
     OpenSSL("ssl.h"),
     OpenSSL("sha.h"),
     OpenSSL("md5.h"),
     OpenSSL("hmac.h"),
     OpenSSL("rand.h"),
     OpenSSL("rsa.h"),
     OpenSSL("pkcs12.h"),
     OpenSSL("x509v3.h"),
     Text(""),
     Directive("endif", "", NoHdr, "") >>

----------------------------------------------------------------------------
\* The preprocessor's rules for the directives the file uses.

\* #ifndef NAME opens a group that is kept when NAME is not a defined macro
IfndefTaken(ms, name) == name \notin ms

\* #define NAME enters NAME in the macro table
DefineMacro_dropped(ms, name) == ms

DefineMacro(ms, name) == ms \cup {name}

\* lines are processed only while every enclosing group is kept
Active(stack) == \A i \in 1..Len(stack) : stack[i]

Pop(stack) == SubSeq(stack, 1, Len(stack) - 1)

----------------------------------------------------------------------------
VARIABLES
  macros,      \* macro names defined so far in the translation unit
  line,        \* 0: outside shim.h; 1..17: next line of shim.h; 18: at its end
  condStack,   \* open conditional groups, TRUE = kept, FALSE = skipped
  processed,   \* headers whose #include directive was executed, in order
  visible,     \* headers whose declarations are visible
  ownText,     \* non-blank text lines shim.h itself contributed
  inclusions   \* #include "shim.h" directives started so far

vars == << macros, line, condStack, processed, visible, ownText, inclusions >>

Init ==
  /\ macros = {}
  /\ line = 0
  /\ condStack = << >>
  /\ processed = << >>
  /\ visible = {}
  /\ ownText = {}
  /\ inclusions = 0

InFile == line \in 1..Len(ShimLines)

Cur == ShimLines[line]

\* the translation unit reaches an  #include "shim.h"
BeginInclude ==
  /\ line = 0
  /\ inclusions < MaxInclusions
  /\ line' = 1
  /\ inclusions' = inclusions + 1
  /\ UNCHANGED << macros, condStack, processed, visible, ownText >>

\* line 1: #ifndef C_OPEN_CRYPTO_H
IfndefDirective ==
  /\ InFile
  /\ Cur.kind = "ifndef"
  /\ condStack' = Append(condStack, Active(condStack) /\ IfndefTaken(macros, Cur.name))
  /\ line' = line + 1
  /\ UNCHANGED << macros, processed, visible, ownText, inclusions >>

\* line 2: #define C_OPEN_CRYPTO_H
DefineDirective ==
  /\ InFile
  /\ Cur.kind = "define"
  /\ Active(condStack)
  /\ macros' = DefineMacro(macros, Cur.name)
  /\ line' = line + 1
  /\ UNCHANGED << condStack, processed, visible, ownText, inclusions >>

\* lines 4-15: #include <openssl/...>
IncludeDirective ==
  /\ InFile
  /\ Cur.kind = "include"
  /\ Active(condStack)
  /\ processed' = Append(processed, Cur.hdr)
  /\ visible' = visible \cup {Cur.hdr}
  /\ line' = line + 1
  /\ UNCHANGED << macros, condStack, ownText, inclusions >>

\* lines 3 and 16: not a directive; non-blank text goes to the translation unit
TextLine ==
  /\ InFile
  /\ Cur.kind = "text"
  /\ Active(condStack)
  /\ ownText' = IF Cur.text = "" THEN ownText ELSE ownText \cup {Cur.text}
  /\ line' = line + 1
  /\ UNCHANGED << macros, condStack, processed, visible, inclusions >>

\* any line but a conditional directive, inside a skipped group
SkippedLine ==
  /\ InFile
  /\ Cur.kind \in {"define", "include", "text"}
  /\ ~Active(condStack)
  /\ line' = line + 1
  /\ UNCHANGED << macros, condStack, processed, visible, ownText, inclusions >>

\* line 17: #endif
EndifDirective ==
  /\ InFile
  /\ Cur.kind = "endif"
  /\ Len(condStack) > 0
  /\ condStack' = Pop(condStack)
  /\ line' = line + 1
  /\ UNCHANGED << macros, processed, visible, ownText, inclusions >>

\* end of shim.h: back to the including file
EndOfFile ==
  /\ line = Len(ShimLines) + 1
  /\ line' = 0
  /\ UNCHANGED << macros, condStack, processed, visible, ownText, inclusions >>

Next ==
  \/ BeginInclude
  \/ IfndefDirective
  \/ DefineDirective
  \/ IncludeDirective
  \/ TextLine
  \/ SkippedLine
  \/ EndifDirective
  \/ EndOfFile

Spec == Init /\ [][Next]_vars

----------------------------------------------------------------------------
\* The twelve headers in the order the file names them.
HeaderOrder ==
  << "conf.h", "evp.h", "err.h", "bio.h", "ssl.h", "sha.h",
     "md5.h", "hmac.h", "rand.h", "rsa.h", "pkcs12.h", "x509v3.h" >>

FilesOf(seq) == [i \in 1..Len(seq) |-> seq[i].file]

IsPrefix(s, t) == Len(s) <= Len(t) /\ s = SubSeq(t, 1, Len(s))

Done == line = 0 /\ inclusions >= 1

\* C1: shim.h contributes nothing of its own. Whatever number of times it
\* is included, it emits no text (no function, type, variable or data
\* structure), the only macro it defines is its guard C_OPEN_CRYPTO_H, it
\* opens no conditional group but the guard's, and every effect it has is
\* to make an external <openssl/...> header visible.
Thm_C1_NoOriginalLogic ==
  /\ ownText = {}
  /\ macros \subseteq {Guard}
  /\ Len(condStack) <= 1
  /\ \A h \in visible : h.form = "angle" /\ h.dir = "openssl"
  /\ \A i \in 1..Len(processed) : processed[i] \in visible
  /\ Done => condStack = << >> /\ Cardinality(visible) = 12

Wit_C1_Included ==
  /\ Done
  /\ macros = {Guard}
  /\ ownText = {}
  /\ Cardinality(visible) = 12

\* C10: inclusion is idempotent. The first inclusion finds the guard
\* undefined, defines it and executes the twelve #include directives once
\* each in the order written; every later inclusion finds the guard defined
\* and executes none of them, so after n >= 1 inclusions the headers
\* processed and the declarations visible are those of one inclusion.
Thm_C10_IdempotentInclusion ==
  /\ IsPrefix(FilesOf(processed), HeaderOrder)
  /\ (inclusions = 1 /\ line = 1) => Guard \notin macros
  /\ (inclusions >= 2 /\ line >= 1) => Guard \in macros
  /\ (inclusions >= 2 /\ line > 1 /\ line <= Len(ShimLines)) => ~Active(condStack)
  /\ (Done \/ inclusions >= 2) =>
        /\ FilesOf(processed) = HeaderOrder
        /\ visible = {processed[i] : i \in 1..Len(processed)}
        /\ Cardinality(visible) = Len(HeaderOrder)
        /\ macros = {Guard}

Wit_C10_SecondInclusionDone ==
  /\ line = 0
  /\ inclusions >= 2
  /\ FilesOf(processed) = HeaderOrder

====
